---- MODULE Spec2Model ----
(***************************************************************************)
(* A model of news_digest.py: the feed parser (parse_feed_content), the    *)
(* fetcher (fetch_feed_content), the cached per-URL task (process_feed),   *)
(* the renderer (create_html_content) and the orchestration and publish    *)
(* flow of main().                                                         *)
(*                                                                         *)
(* Wall-clock instants are whole hours; the cache timer is whole seconds.  *)
(* Strings that the code orders (source names, ISO timestamps) are         *)
(* sequences of character codes compared lexicographically, as Python      *)
(* compares str.                                                           *)
(***************************************************************************)
EXTENDS Integers, Sequences, FiniteSets, TLC

VARIABLES
    tz,            \* the process's local time zone: [std, dst] in hours
    cutoff_time,   \* main: cutoff_time (line 241); parse_feed_content's argument
    content_in,    \* SpecParse: the content handed to parse_feed_content
    posts_out,     \* SpecParse: what parse_feed_content returned
    parse_pc,      \* SpecParse: "input" | "returned"
    posts_in,      \* SpecRender: the posts handed to create_html_content
    html_out,      \* SpecRender: the document create_html_content returned
    render_pc,     \* SpecRender: "input" | "returned"
    feed_urls,     \* main: feed_urls (line 238)
    mainpc,        \* main: position of the main coroutine
    max_workers,   \* main: size of the ThreadPoolExecutor (line 251)
    tasks,         \* the process_feed coroutines, by position in the gather
    feed_cache,    \* the module-level TTLCache (line 25), oldest entry first
    clock,         \* the cache's timer (time.monotonic), in seconds
    all_posts,     \* main: all_posts (line 259)
    html_content,  \* main: html_content (line 264)
    repo_file,     \* the remote index.html: "absent" | "present"
    api_log        \* the repository API calls made so far, in order

vars == <<tz, cutoff_time, content_in, posts_out, parse_pc, posts_in, html_out,
          render_pc, feed_urls, mainpc, max_workers, tasks, feed_cache, clock,
          all_posts, html_content, repo_file, api_log>>

parseVars == <<content_in, posts_out, parse_pc>>
renderVars == <<posts_in, html_out, render_pc>>
runVars == <<feed_urls, mainpc, max_workers, tasks, feed_cache, clock,
             all_posts, html_content, repo_file, api_log>>

(***************************************************************************)
(* Bounds of the model.                                                    *)
(***************************************************************************)
MaxTime == 3        \* entry times are 1..MaxTime (hours)
MaxEntries == 2     \* entries per feed in SpecParse
MaxPosts == 3       \* posts per list in SpecRender
MaxUrls == 2        \* lines of the feed list in Spec
MaxCalls == 2       \* overlapping process_feed calls in SpecCache
MaxPeriods == 1     \* the timer runs to MaxPeriods * ttl + 1 seconds

(***************************************************************************)
(* Strings as sequences of character codes.                                *)
(***************************************************************************)
Min(a, b) == IF a <= b THEN a ELSE b

RECURSIVE StrLess(_, _)
\* Python's str "<": lexicographic by code point, a proper prefix first.
StrLess(a, b) ==
    IF b = <<>> THEN FALSE
    ELSE IF a = <<>> THEN TRUE
    ELSE IF Head(a) # Head(b) THEN Head(a) < Head(b)
    ELSE StrLess(Tail(a), Tail(b))

\* Source names: "A", "AA", "B" and the literal "Unknown Source" (line 52).
SrcA == <<65>>
SrcAA == <<65, 65>>
SrcB == <<66>>
UnknownSource == <<85, 110>>

(***************************************************************************)
(* Local time: the structs feedparser returns are UTC with tm_isdst = 0.   *)
(* time.mktime reads a struct as local standard time; fromtimestamp        *)
(* renders the resulting instant as local wall time, daylight saving       *)
(* included; pytz.UTC.localize then labels that wall time as UTC.          *)
(***************************************************************************)
TimeZones == { [std |-> 0, dst |-> 0],     \* UTC
               [std |-> -5, dst |-> 0],    \* a zone in winter
               [std |-> -5, dst |-> 1] }   \* the same zone in summer

mktime(st, z) == st - z.std
fromtimestamp(ts, z) == ts + z.std + z.dst
localize(dt) == dt

\* datetime.isoformat: fixed-width, zero-padded fields.
isoformat(dt) == << dt \div 10, dt % 10 >>
fromisoformat(s) == s[1] * 10 + s[2]
\* strftime('%I:%M %p'): the time of day, the date dropped.
strftime(dt) == dt % 24

(***************************************************************************)
(* What feedparser.parse hands back: a feed title (or none) and entries,   *)
(* each attribute present or absent; a *_parsed attribute is present with  *)
(* value None when feedparser could not read the date.                     *)
(***************************************************************************)
Absent == [kind |-> "absent"]
NoneValue == [kind |-> "none"]
At(t) == [kind |-> "time", t |-> t]
NoAttr == "<no attribute>"

Entry(pub, upd, title, link) ==
    [published_parsed |-> pub, updated_parsed |-> upd, title |-> title, link |-> link]

\* The content a fetch returned: "" or a body; the body as feedparser reads it.
\* has_title: hasattr(feed.feed, 'title').
EmptyContent == [kind |-> "empty"]
Feed(has_title, title, entries) ==
    [kind |-> "feed", has_title |-> has_title, title |-> title, entries |-> entries]

hasattr(e, f) == e[f].kind # "absent"

\* Lines 37-41: the first of published_parsed, updated_parsed that is present.
time_field(e) ==
    IF hasattr(e, "published_parsed") THEN e.published_parsed
    ELSE IF hasattr(e, "updated_parsed") THEN e.updated_parsed
    ELSE Absent

\* Lines 44-45.
published_datetime(st, z) == localize(fromtimestamp(mktime(st, z), z))

\* Line 47.
after_cutoff(dt, cutoff) == dt > cutoff

\* Line 40 raises TypeError on time.struct_time(None); lines 49-50 raise
\* AttributeError on a missing title or link, reached only past the cutoff.
entry_raises(e, cutoff, z) ==
    LET f == time_field(e) IN
    \/ f.kind = "none"
    \/ /\ f.kind = "time"
       /\ after_cutoff(published_datetime(f.t, z), cutoff)
       /\ (e.title = NoAttr \/ e.link = NoAttr)

\* Lines 43, 47: the entry is appended.
entry_kept(e, cutoff, z) ==
    LET f == time_field(e) IN
    /\ f.kind = "time"
    /\ after_cutoff(published_datetime(f.t, z), cutoff)

\* Lines 48-53.
make_post(e, feed, z) ==
    [title |-> e.title,
     link |-> e.link,
     published |-> isoformat(published_datetime(time_field(e).t, z)),
     source |-> IF feed.has_title THEN feed.title ELSE UnknownSource]

RECURSIVE parse_loop(_, _, _, _, _)
\* Lines 36-55: the loop over feed.entries; an exception in any iteration
\* leaves the loop for the handler of lines 56-58.
parse_loop(feed, i, acc, cutoff, z) ==
    IF i > Len(feed.entries) THEN [raised |-> FALSE, posts |-> acc]
    ELSE LET e == feed.entries[i] IN
         IF entry_raises(e, cutoff, z) THEN [raised |-> TRUE, posts |-> <<>>]
         ELSE parse_loop(feed, i + 1,
                         IF entry_kept(e, cutoff, z)
                         THEN Append(acc, make_post(e, feed, z)) ELSE acc,
                         cutoff, z)

\* Lines 27-58.
parse_feed_content(content, cutoff, z) ==
    IF content.kind = "empty" THEN <<>>
    ELSE parse_loop(content, 1, <<>>, cutoff, z).posts

parse_raised(content, cutoff, z) ==
    content.kind = "feed" /\ parse_loop(content, 1, <<>>, cutoff, z).raised

(***************************************************************************)
(* create_html_content: the document is the sequence of its elements after *)
(* the fixed head (lines 99-189), before the fixed tail (lines 217-221).   *)
(***************************************************************************)
\* The sort without reverse=True: oldest first.
key_before_ascending(a, b) == StrLess(a.published, b.published)

\* sorted(..., reverse=True) places a before b when b's key is smaller.
key_before(a, b) == StrLess(b.published, a.published)

RECURSIVE insert_stable(_, _)
\* p goes before the first element it must precede: equal keys keep their
\* original order, as Python's stable sort does, also with reverse=True.
insert_stable(s, p) ==
    IF s = <<>> THEN <<p>>
    ELSE IF key_before(p, Head(s)) THEN <<p>> \o s
    ELSE <<Head(s)>> \o insert_stable(Tail(s), p)

RECURSIVE sorted_from(_, _, _)
sorted_from(posts, i, acc) ==
    IF i > Len(posts) THEN acc
    ELSE sorted_from(posts, i + 1, insert_stable(acc, posts[i]))

\* Line 195.
sorted_posts(posts) == sorted_from(posts, 1, <<>>)

SourcesOf(posts) == { posts[i].source : i \in 1..Len(posts) }

\* Lines 198-203: the value posts_by_source[source].
posts_by_source(posts, source) ==
    LET OfSource(p) == p.source = source
    IN SelectSeq(sorted_posts(posts), OfSource)

RECURSIVE sorted_keys(_)
\* Line 206: sorted(posts_by_source.keys()).
sorted_keys(S) ==
    IF S = {} THEN <<>>
    ELSE LET m == CHOOSE x \in S : \A y \in S \ {x} : StrLess(x, y)
         IN <<m>> \o sorted_keys(S \ {m})

\* Line 207.
heading(source) == [kind |-> "h2", source |-> source]

\* Lines 209-215.
post_div(p) ==
    [kind |-> "post", href |-> p.link, title |-> p.title,
     timestamp |-> strftime(fromisoformat(p.published)), post |-> p]

RECURSIVE render_groups(_, _, _)
render_groups(posts, keys, i) ==
    IF i > Len(keys) THEN <<>>
    ELSE LET group == posts_by_source(posts, keys[i])
         IN <<heading(keys[i])>>
            \o [k \in 1..Len(group) |-> post_div(group[k])]
            \o render_groups(posts, keys, i + 1)

NoPostsMessage == [kind |-> "p", text |-> "No new posts in the last 24 hours."]

\* Lines 191-215.
create_html_content(posts) ==
    IF posts = <<>> THEN <<NoPostsMessage>>
    ELSE render_groups(posts, sorted_keys(SourcesOf(posts)), 1)

(***************************************************************************)
(* Inputs.                                                                 *)
(***************************************************************************)
SeqUpTo(S, n) == UNION { [1..k -> S] : k \in 0..n }

Times == 1..MaxTime

Entries ==
    { Entry(At(t), Absent, "t", "l") : t \in Times }
    \cup { Entry(Absent, At(MaxTime), "u", "l"),
           Entry(At(1), At(MaxTime), "pu", "l"),
           Entry(Absent, Absent, "n", "l"),
           Entry(NoneValue, Absent, "x", "l"),
           Entry(At(1), Absent, NoAttr, "l"),
           Entry(At(MaxTime), Absent, NoAttr, "l"),
           Entry(At(MaxTime), Absent, "nolink", NoAttr) }

Contents ==
    { EmptyContent }
    \cup { Feed(TRUE, SrcA, es) : es \in SeqUpTo(Entries, MaxEntries) }
    \cup { Feed(FALSE, <<>>, es) : es \in SeqUpTo(Entries, MaxEntries) }

Posts ==
    { [title |-> "t", link |-> "l", published |-> isoformat(t), source |-> s] :
        t \in {9, 10, 15, 20}, s \in {SrcA, SrcAA, SrcB} }
    \cup { [title |-> "t2", link |-> "l2", published |-> isoformat(20), source |-> s] :
        s \in {SrcA, SrcAA, SrcB} }

NoValue == <<>>

IdleParse ==
    /\ content_in = EmptyContent
    /\ posts_out = NoValue
    /\ parse_pc = "idle"

IdleRender ==
    /\ posts_in = <<>>
    /\ html_out = NoValue
    /\ render_pc = "idle"

IdleRun ==
    /\ feed_urls = <<>>
    /\ mainpc = "unused"
    /\ max_workers = 0
    /\ tasks = <<>>
    /\ feed_cache = <<>>
    /\ clock = 0
    /\ all_posts = <<>>
    /\ html_content = NoValue
    /\ repo_file = "absent"
    /\ api_log = <<>>

(***************************************************************************)
(* SpecParse: parse_feed_content applied to every content, cutoff and      *)
(* local time zone of the bounded sets.                                    *)
(***************************************************************************)
InitParse ==
    /\ tz \in TimeZones
    /\ cutoff_time \in 1..(MaxTime - 1)
    /\ content_in \in Contents
    /\ posts_out = NoValue
    /\ parse_pc = "input"
    /\ IdleRender
    /\ IdleRun

Parse ==
    /\ parse_pc = "input"
    /\ posts_out' = parse_feed_content(content_in, cutoff_time, tz)
    /\ parse_pc' = "returned"
    /\ UNCHANGED <<tz, cutoff_time, content_in, renderVars, runVars>>

NextParse == Parse

SpecParse == InitParse /\ [][NextParse]_vars

(***************************************************************************)
(* SpecRender: create_html_content applied to every post list of the       *)
(* bounded set.                                                            *)
(***************************************************************************)
InitRender ==
    /\ tz = [std |-> 0, dst |-> 0]
    /\ cutoff_time = 0
    /\ posts_in \in SeqUpTo(Posts, MaxPosts)
    /\ html_out = NoValue
    /\ render_pc = "input"
    /\ IdleParse
    /\ IdleRun

Render ==
    /\ render_pc = "input"
    /\ html_out' = create_html_content(posts_in)
    /\ render_pc' = "returned"
    /\ UNCHANGED <<tz, cutoff_time, posts_in, parseVars, runVars>>

NextRender == Render

SpecRender == InitRender /\ [][NextRender]_vars

(***************************************************************************)
(* The TTLCache of line 25. An entry is [url, posts, expires]; the         *)
(* sequence is the cache's link order, oldest first. Every operation       *)
(* reads the timer itself.                                                 *)
(***************************************************************************)
ttl == 600
maxsize == 100

Instants == { t \in { k * ttl + e : k \in 0..MaxPeriods, e \in {-1, 0, 1} } : t >= 0 }

cache_keys(cache) == { cache[k].url : k \in 1..Len(cache) }

cache_entry(cache, url) ==
    cache[CHOOSE k \in 1..Len(cache) : cache[k].url = url]

\* An entry is live while timer() < expires.
link_live(e, now) == now < e.expires

\* Line 74: url in feed_cache.
cache_contains(cache, url, now) ==
    /\ url \in cache_keys(cache)
    /\ link_live(cache_entry(cache, url), now)

\* Line 75: feed_cache[url]; KeyError when the entry is missing or expired.
cache_getitem(cache, url, now) ==
    IF cache_contains(cache, url, now)
    THEN [raised |-> FALSE, value |-> cache_entry(cache, url).posts]
    ELSE [raised |-> TRUE, value |-> <<>>]

cache_expire(cache, now) ==
    LET Live(e) == link_live(e, now) IN SelectSeq(cache, Live)

RECURSIVE cache_make_room(_)
\* popitem, oldest first, until one more entry fits.
cache_make_room(cache) ==
    IF Len(cache) + 1 > maxsize THEN cache_make_room(Tail(cache)) ELSE cache

\* Line 88: feed_cache[url] = posts.
cache_setitem(cache, url, posts, now) ==
    LET live == cache_expire(cache, now)
        Other(e) == e.url # url
        kept == IF url \in cache_keys(live) THEN SelectSeq(live, Other)
                ELSE cache_make_room(live)
    IN Append(kept, [url |-> url, posts |-> posts, expires |-> now + ttl])

(***************************************************************************)
(* fetch_feed_content and the responses of the network.                    *)
(***************************************************************************)
Urls == {"u1", "u2"}
CacheUrls == {"u1"}      \* the URLs the callers of SpecCache ask for

Response(status, exc, body) == [status |-> status, exc |-> exc, body |-> body]
NoResponse == Response(0, FALSE, EmptyContent)

FeedRecent == Feed(TRUE, SrcA, << Entry(At(MaxTime), Absent, "t", "l") >>)
FeedMixed == Feed(TRUE, SrcB, << Entry(At(1), Absent, "old", "l"),
                                 Entry(Absent, At(MaxTime), "u", "l") >>)
FeedOld == Feed(FALSE, <<>>, << Entry(At(1), Absent, "old", "l") >>)
FeedGarbage == Feed(FALSE, <<>>, <<>>)
FeedDefect == Feed(TRUE, SrcA, << Entry(At(MaxTime), Absent, "t", "l"),
                                  Entry(NoneValue, Absent, "x", "l") >>)

Responses ==
    { Response(200, FALSE, FeedRecent),
      Response(200, FALSE, FeedMixed),
      Response(200, FALSE, FeedOld),
      Response(200, FALSE, FeedGarbage),     \* a body feedparser finds no entry in
      Response(200, FALSE, FeedDefect),      \* a body whose parse raises
      Response(404, FALSE, FeedRecent),      \* an error status, whatever the body
      Response(0, TRUE, EmptyContent) }      \* timeout or network error

\* The fetch without the status test of line 64.
fetch_any_status(resp) == IF ~resp.exc THEN resp.body ELSE EmptyContent

\* Lines 62-68: the text of a 200 response, "" otherwise.
fetch_feed_content(resp) ==
    IF ~resp.exc /\ resp.status = 200 THEN resp.body ELSE EmptyContent

(***************************************************************************)
(* process_feed: one coroutine per task, cut at its awaits.                *)
(***************************************************************************)
Task(pc, url) ==
    [pc |-> pc, url |-> url, gets |-> 0, resp |-> NoResponse,
     posts |-> <<>>, result |-> <<>>]
IdleTask == Task("idle", "")

\* Line 93: the handler of process_feed returns [].
process_feed_except(t) == [t EXCEPT !.pc = "done", !.result = <<>>]

\* A fetch that is tried again after a failure.
fetch_failed_retry(t) == [t EXCEPT !.pc = "fetching", !.gets = @ + 1]

\* Lines 78-79: no content, return [] (no second attempt).
fetch_failed(t) == [t EXCEPT !.pc = "done", !.result = <<>>]

\* Lines 74-77, up to the first await. The membership test and the read of
\* line 75 each read the timer; now2 is the timer at the read.
start_step(t, cache, now, now2) ==
    IF cache_contains(cache, t.url, now)
    THEN LET got == cache_getitem(cache, t.url, now2) IN
         IF got.raised THEN process_feed_except(t)
         ELSE [t EXCEPT !.pc = "done", !.result = got.value]
    ELSE [t EXCEPT !.pc = "fetching", !.gets = @ + 1]

\* Lines 77-85: the response arrives; the parse is handed to the executor.
fetch_step(t, resp) ==
    IF fetch_feed_content(resp) = EmptyContent
    THEN fetch_failed([t EXCEPT !.resp = resp])
    ELSE [t EXCEPT !.pc = "queued", !.resp = resp]

\* The cache written whatever the parse returned.
should_cache_always(posts) == TRUE

\* Line 87: the cache is written only for a non-empty list.
should_cache(posts) == posts # <<>>

busy == Cardinality({ i \in DOMAIN tasks : tasks[i].pc = "parsing" })

\* The response of a fetch arrives. Under gather every coroutine has run to
\* its first await before the event loop delivers any I/O.
FetchDone(i) ==
    /\ tasks[i].pc = "fetching"
    /\ \A j \in DOMAIN tasks : tasks[j].pc # "new"
    /\ \E resp \in Responses : tasks' = [tasks EXCEPT ![i] = fetch_step(@, resp)]
    /\ UNCHANGED <<tz, cutoff_time, parseVars, renderVars, feed_urls, mainpc,
                   max_workers, feed_cache, clock, all_posts, html_content,
                   repo_file, api_log>>

\* A worker thread of the executor takes the parse.
ParseStart(i) ==
    /\ tasks[i].pc = "queued"
    /\ busy < max_workers
    /\ tasks' = [tasks EXCEPT ![i].pc = "parsing"]
    /\ UNCHANGED <<tz, cutoff_time, parseVars, renderVars, feed_urls, mainpc,
                   max_workers, feed_cache, clock, all_posts, html_content,
                   repo_file, api_log>>

\* The worker thread returns from parse_feed_content.
ParseDone(i) ==
    /\ tasks[i].pc = "parsing"
    /\ tasks' = [tasks EXCEPT
                   ![i].pc = "parsed",
                   ![i].posts = parse_feed_content(fetch_feed_content(tasks[i].resp),
                                                   cutoff_time, tz)]
    /\ UNCHANGED <<tz, cutoff_time, parseVars, renderVars, feed_urls, mainpc,
                   max_workers, feed_cache, clock, all_posts, html_content,
                   repo_file, api_log>>

\* Lines 87-90: the coroutine resumes with the posts.
Resume(i) ==
    /\ tasks[i].pc = "parsed"
    /\ feed_cache' = IF should_cache(tasks[i].posts)
                     THEN cache_setitem(feed_cache, tasks[i].url, tasks[i].posts, clock)
                     ELSE feed_cache
    /\ tasks' = [tasks EXCEPT ![i].pc = "done", ![i].result = tasks[i].posts]
    /\ UNCHANGED <<tz, cutoff_time, parseVars, renderVars, feed_urls, mainpc,
                   max_workers, clock, all_posts, html_content, repo_file, api_log>>

(***************************************************************************)
(* main, from the feed list read (line 238) to the exit of the process.    *)
(***************************************************************************)
RECURSIVE Flatten(_, _)
\* Line 259: the posts of results[i..], in order.
Flatten(results, i) ==
    IF i > Len(results) THEN <<>>
    ELSE results[i] \o Flatten(results, i + 1)

\* A wait that returns with the first task to finish.
gather_first_completed == \E i \in DOMAIN tasks : tasks[i].pc = "done"

\* Line 256: gather returns when every task has returned.
gather_done == \A i \in DOMAIN tasks : tasks[i].pc = "done"

\* Line 251: ThreadPoolExecutor raises ValueError for max_workers = 0, and
\* nothing in main catches it. Lines 252-256: the tasks are created.
CreatePool ==
    /\ mainpc = "start"
    /\ LET n == Min(8, Len(feed_urls)) IN
       IF n <= 0
       THEN /\ mainpc' = "crashed"
            /\ UNCHANGED <<max_workers, tasks>>
       ELSE /\ mainpc' = "gather"
            /\ max_workers' = n
            /\ tasks' = [i \in 1..Len(feed_urls) |-> Task("new", feed_urls[i])]
    /\ UNCHANGED <<tz, cutoff_time, parseVars, renderVars, feed_urls, feed_cache,
                   clock, all_posts, html_content, repo_file, api_log>>

\* The first step of task i; the event loop starts the tasks in list order.
TaskStart(i) ==
    /\ mainpc = "gather"
    /\ tasks[i].pc = "new"
    /\ \A j \in 1..(i - 1) : tasks[j].pc # "new"
    /\ tasks' = [tasks EXCEPT ![i] = start_step(@, feed_cache, clock, clock)]
    /\ UNCHANGED <<tz, cutoff_time, parseVars, renderVars, feed_urls, mainpc,
                   max_workers, feed_cache, clock, all_posts, html_content,
                   repo_file, api_log>>

\* Lines 256-259.
Join ==
    /\ mainpc = "gather"
    /\ gather_done
    /\ all_posts' = Flatten([i \in DOMAIN tasks |-> tasks[i].result], 1)
    /\ mainpc' = "render"
    /\ UNCHANGED <<tz, cutoff_time, parseVars, renderVars, feed_urls, max_workers,
                   tasks, feed_cache, clock, html_content, repo_file, api_log>>

\* Line 264.
RenderDigest ==
    /\ mainpc = "render"
    /\ html_content' = create_html_content(all_posts)
    /\ mainpc' = "publish"
    /\ UNCHANGED <<tz, cutoff_time, parseVars, renderVars, feed_urls, max_workers,
                   tasks, feed_cache, clock, all_posts, repo_file, api_log>>

Call(op, outcome) == [op |-> op, outcome |-> outcome]

\* What repo.get_contents can do: find the file, report it missing, or fail
\* otherwise (network, authentication).
get_outcomes == IF repo_file = "present" THEN {"ok", "error"} ELSE {"notfound", "error"}

\* Lines 268-277: any exception of the inner try, from get_contents or from
\* update_file, enters the handler that creates the file.
inner_try_next(outcome) == IF outcome = "ok" THEN "next" ELSE "create"

\* Line 270.
GetContents ==
    /\ mainpc = "publish"
    /\ \E o \in get_outcomes :
         /\ api_log' = Append(api_log, Call("get", o))
         /\ mainpc' = IF inner_try_next(o) = "next" THEN "update" ELSE "create"
    /\ UNCHANGED <<tz, cutoff_time, parseVars, renderVars, feed_urls, max_workers,
                   tasks, feed_cache, clock, all_posts, html_content, repo_file>>

\* Lines 271-276.
UpdateFile ==
    /\ mainpc = "update"
    /\ \E o \in {"ok", "error"} :
         /\ api_log' = Append(api_log, Call("update", o))
         /\ mainpc' = IF inner_try_next(o) = "next" THEN "success" ELSE "create"
    /\ UNCHANGED <<tz, cutoff_time, parseVars, renderVars, feed_urls, max_workers,
                   tasks, feed_cache, clock, all_posts, html_content, repo_file>>

\* Lines 279-288: a failure here reaches the outer handler, which logs and
\* raises. Creating a file that exists fails.
CreateFile ==
    /\ mainpc = "create"
    /\ \E o \in (IF repo_file = "present" THEN {"error"} ELSE {"ok", "error"}) :
         /\ api_log' = Append(api_log, Call("create", o))
         /\ mainpc' = IF o = "ok" THEN "success" ELSE "fatal"
         /\ repo_file' = IF o = "ok" THEN "present" ELSE repo_file
    /\ UNCHANGED <<tz, cutoff_time, parseVars, renderVars, feed_urls, max_workers,
                   tasks, feed_cache, clock, all_posts, html_content>>

Init ==
    /\ tz \in TimeZones
    /\ cutoff_time = MaxTime - 1
    /\ IdleParse
    /\ IdleRender
    /\ feed_urls \in SeqUpTo(Urls, MaxUrls)
    /\ mainpc = "start"
    /\ max_workers = 0
    /\ tasks = <<>>
    /\ feed_cache = <<>>
    /\ clock = 0
    /\ all_posts = <<>>
    /\ html_content = NoValue
    /\ repo_file \in {"absent", "present"}
    /\ api_log = <<>>

Next ==
    \/ CreatePool
    \/ \E i \in DOMAIN tasks : TaskStart(i)
    \/ \E i \in DOMAIN tasks : FetchDone(i)
    \/ \E i \in DOMAIN tasks : ParseStart(i)
    \/ \E i \in DOMAIN tasks : ParseDone(i)
    \/ \E i \in DOMAIN tasks : Resume(i)
    \/ Join
    \/ RenderDigest
    \/ GetContents
    \/ UpdateFile
    \/ CreateFile

Spec == Init /\ [][Next]_vars

(***************************************************************************)
(* SpecCache: process_feed called by any caller at any time, calls         *)
(* overlapping, the timer running: the cache as a long-lived process       *)
(* would use it.                                                           *)
(***************************************************************************)
InitCache ==
    /\ tz = [std |-> 0, dst |-> 0]
    /\ cutoff_time = MaxTime - 1
    /\ IdleParse
    /\ IdleRender
    /\ feed_urls = <<>>
    /\ mainpc = "caller"
    /\ max_workers = MaxCalls
    /\ tasks = [i \in 1..MaxCalls |-> IdleTask]
    /\ feed_cache = <<>>
    /\ clock = 0
    /\ all_posts = <<>>
    /\ html_content = NoValue
    /\ repo_file = "absent"
    /\ api_log = <<>>

\* await process_feed(url, ...): lines 74-77; the timer may advance, here by
\* a second, between the membership test and the read.
CallProcessFeed(i) ==
    /\ tasks[i].pc = "idle"
    /\ \E url \in CacheUrls, now2 \in { t \in Instants : t = clock \/ t = clock + 1 } :
         /\ tasks' = [tasks EXCEPT
                        ![i] = start_step(Task("new", url), feed_cache, clock, now2)]
         /\ clock' = IF cache_contains(feed_cache, url, clock) THEN now2 ELSE clock
    /\ UNCHANGED <<tz, cutoff_time, parseVars, renderVars, feed_urls, mainpc,
                   max_workers, feed_cache, all_posts, html_content, repo_file,
                   api_log>>

\* The caller takes the result.
Return(i) ==
    /\ tasks[i].pc = "done"
    /\ tasks' = [tasks EXCEPT ![i] = IdleTask]
    /\ UNCHANGED <<tz, cutoff_time, parseVars, renderVars, feed_urls, mainpc,
                   max_workers, feed_cache, clock, all_posts, html_content,
                   repo_file, api_log>>

Tick ==
    /\ \E t \in Instants : t > clock /\ clock' = t
    /\ UNCHANGED <<tz, cutoff_time, parseVars, renderVars, feed_urls, mainpc,
                   max_workers, tasks, feed_cache, all_posts, html_content,
                   repo_file, api_log>>

NextCache ==
    \/ \E i \in DOMAIN tasks : CallProcessFeed(i)
    \/ \E i \in DOMAIN tasks : FetchDone(i)
    \/ \E i \in DOMAIN tasks : ParseStart(i)
    \/ \E i \in DOMAIN tasks : ParseDone(i)
    \/ \E i \in DOMAIN tasks : Resume(i)
    \/ \E i \in DOMAIN tasks : Return(i)
    \/ Tick

SpecCache == InitCache /\ [][NextCache]_vars

(***************************************************************************)
(* Helpers of the properties.                                              *)
(***************************************************************************)
Range(s) == { s[k] : k \in 1..Len(s) }
Count(s, x) == Cardinality({ k \in 1..Len(s) : s[k] = x })

RECURSIVE SumLen(_, _)
SumLen(results, i) == IF i > Len(results) THEN 0 ELSE Len(results[i]) + SumLen(results, i + 1)

RECURSIVE SumCount(_, _, _)
SumCount(results, i, x) ==
    IF i > Len(results) THEN 0 ELSE Count(results[i], x) + SumCount(results, i + 1, x)

\* An entry's own time field as the UTC instant the feed states.
UtcInstant(e) == time_field(e).t
HasTime(e) == time_field(e).kind = "time"
Recent(e, cutoff) == HasTime(e) /\ UtcInstant(e) > cutoff
ValidFields(e) == e.title # NoAttr /\ e.link # NoAttr
\* A post is the post of entry e: same title and link.
PostOf(p, e) == p.title = e.title /\ p.link = e.link

AfterJoin == {"render", "publish", "update", "create", "success", "fatal"}
Results == [i \in DOMAIN tasks |-> tasks[i].result]
PostDivs(doc) == SelectSeq(doc, LAMBDA x : x.kind = "post")
Headings(doc) == SelectSeq(doc, LAMBDA x : x.kind = "h2")

(***************************************************************************)
(* Properties of parse_feed_content (SpecParse).                           *)
(***************************************************************************)
\* C2: cutoff filtering. Once parse_feed_content has returned: every post of
\* the output is the post of an entry that has a time field whose UTC
\* instant is strictly later than the cutoff (so an entry at or before the
\* cutoff, or with neither time field, never appears); every entry later than
\* the cutoff with a title and a link has its post in the output; and empty
\* content gives an empty output.
C2_CutoffFilter ==
    parse_pc = "returned" =>
        IF content_in.kind = "empty" THEN posts_out = <<>>
        ELSE LET es == content_in.entries IN
             /\ \A k \in 1..Len(posts_out) :
                  \E i \in 1..Len(es) :
                      Recent(es[i], cutoff_time) /\ PostOf(posts_out[k], es[i])
             /\ \A i \in 1..Len(es) :
                  (Recent(es[i], cutoff_time) /\ ValidFields(es[i]))
                      => \E k \in 1..Len(posts_out) : PostOf(posts_out[k], es[i])

\* C10: per-entry isolation. Once parse_feed_content has returned, every
\* entry with a time later than the cutoff (as the code converts it), a title
\* and a link has its post in the output, whatever defect another entry of
\* the same feed has.
C10_EntryIsolation ==
    (parse_pc = "returned" /\ content_in.kind = "feed") =>
        \A i \in 1..Len(content_in.entries) :
            LET e == content_in.entries[i] IN
            (HasTime(e) /\ entry_kept(e, cutoff_time, tz) /\ ValidFields(e))
                => \E k \in 1..Len(posts_out) :
                       posts_out[k] = make_post(e, content_in, tz)

(***************************************************************************)
(* Properties of create_html_content (SpecRender).                         *)
(***************************************************************************)
\* The source of the heading a document element stands under.
HeadingAbove(doc, k) ==
    doc[CHOOSE h \in 1..k : doc[h].kind = "h2"
                            /\ \A g \in (h + 1)..k : doc[g].kind # "h2"].source

\* C7: render ordering. For a non-empty list the document has exactly one
\* heading per distinct source and no other heading, the headings ascend
\* lexicographically, every post appears exactly once and stands under the
\* heading of its own source, and the posts of one source descend in
\* published time; for an empty list the document is the no-posts message
\* and has no heading.
C7_RenderOrdering ==
    render_pc = "returned" =>
        IF posts_in = <<>>
        THEN /\ NoPostsMessage \in Range(html_out)
             /\ Headings(html_out) = <<>>
        ELSE LET doc == html_out IN
             /\ \A i \in 1..Len(doc) : doc[i].kind \in {"h2", "post"}
             /\ doc[1].kind = "h2"
             /\ { doc[i].source : i \in { j \in 1..Len(doc) : doc[j].kind = "h2" } }
                    = SourcesOf(posts_in)
             /\ \A i, j \in 1..Len(doc) :
                  (i < j /\ doc[i].kind = "h2" /\ doc[j].kind = "h2")
                      => StrLess(doc[i].source, doc[j].source)
             /\ \A p \in Range(posts_in) :
                  Cardinality({ k \in 1..Len(doc) : doc[k].kind = "post" /\ doc[k].post = p })
                      = Count(posts_in, p)
             /\ Len(PostDivs(doc)) = Len(posts_in)
             /\ \A k \in 1..Len(doc) :
                  doc[k].kind = "post" => HeadingAbove(doc, k) = doc[k].post.source
             /\ \A k, l \in 1..Len(doc) :
                  (k < l /\ doc[k].kind = "post" /\ doc[l].kind = "post"
                     /\ doc[k].post.source = doc[l].post.source)
                      => fromisoformat(doc[k].post.published)
                             >= fromisoformat(doc[l].post.published)

\* C7 witness: the list [{t:10,B},{t:20,A},{t:15,A}] rendered as A, t:20,
\* t:15, B, t:10.
C7_Witness ==
    LET P(t, src) == [title |-> "t", link |-> "l", published |-> isoformat(t), source |-> src]
    IN /\ render_pc = "returned"
       /\ posts_in = << P(10, SrcB), P(20, SrcA), P(15, SrcA) >>
       /\ html_out = << heading(SrcA), post_div(P(20, SrcA)), post_div(P(15, SrcA)),
                        heading(SrcB), post_div(P(10, SrcB)) >>

(***************************************************************************)
(* Properties of the run (Spec).                                           *)
(***************************************************************************)
\* The fetch or the parse of a response fails: an exception, a status other
\* than 200, a body with nothing in it to parse, or a parse that raises.
Failed(resp) == \/ resp.exc
                \/ resp.status # 200
                \/ resp.body.kind = "empty"
                \/ resp.body.entries = <<>>
                \/ parse_raised(resp.body, cutoff_time, tz)

\* The entries of a feed that qualify: a time later than the cutoff.
Qualifying(feed) == SelectSeq(feed.entries, LAMBDA e : Recent(e, cutoff_time))

\* C1: per-URL isolation. While the tasks run, the run can always take a
\* step, and a run over at least one URL is never aborted. After the join:
\* every task has returned; a task whose fetch or parse failed returned no
\* post; a task whose fetch and parse succeeded returned the post of every
\* qualifying entry of its own feed, under its own feed's title, whatever
\* happened to the other tasks; these posts are in the combined list, which
\* holds the tasks' posts and nothing else; and once rendered, the document
\* shows every post of the combined list and one heading per source.
C1_PerUrlIsolation ==
    /\ mainpc = "gather" => ENABLED Next
    /\ Len(feed_urls) >= 1 => mainpc # "crashed"
    /\ mainpc \in AfterJoin =>
        /\ \A i \in DOMAIN tasks :
             /\ tasks[i].pc = "done"
             /\ Failed(tasks[i].resp) => tasks[i].result = <<>>
             /\ ~Failed(tasks[i].resp) =>
                  LET q == Qualifying(tasks[i].resp.body) IN
                  \A k \in 1..Len(q) :
                      \E p \in Range(tasks[i].result) :
                          /\ PostOf(p, q[k])
                          /\ p.source = tasks[i].resp.body.title
                          /\ p \in Range(all_posts)
        /\ Len(all_posts) = SumLen(Results, 1)
        /\ html_content # NoValue =>
             /\ \A p \in Range(all_posts) :
                  \E k \in 1..Len(html_content) :
                      html_content[k].kind = "post" /\ html_content[k].post = p
             /\ Len(PostDivs(html_content)) = Len(all_posts)
             /\ Len(Headings(html_content)) = Cardinality(SourcesOf(all_posts))

\* C1 witness: one valid feed with one recent entry and one feed answering
\* 404, rendered as exactly one post under one source heading.
C1_Witness ==
    /\ mainpc = "publish"
    /\ Len(tasks) = 2
    /\ tasks[1].resp = Response(404, FALSE, FeedRecent)
    /\ tasks[2].resp = Response(200, FALSE, FeedRecent)
    /\ Len(all_posts) = 1
    /\ Len(PostDivs(html_content)) = 1
    /\ Len(Headings(html_content)) = 1

\* C3: publish flow. A create is only ever called directly after a read of
\* index.html that failed because the file does not exist; an update is only
\* called directly after a successful read; and a failed call other than that
\* not-found read is the last call of the run, which then ends fatally.
C3_PublishFlow ==
    /\ \A k \in 1..Len(api_log) :
         /\ api_log[k].op = "create" =>
              (k = 2 /\ api_log[1] = Call("get", "notfound"))
         /\ api_log[k].op = "update" => (k = 2 /\ api_log[1] = Call("get", "ok"))
         /\ (api_log[k].outcome = "error") => k = Len(api_log)
    /\ (api_log # <<>> /\ api_log[Len(api_log)].outcome = "error") => mainpc = "fatal"

\* The GETs issued for url, over all tasks.
RECURSIVE GetsFor(_, _)
GetsFor(url, i) ==
    IF i > Len(tasks) THEN 0
    ELSE (IF tasks[i].url = url THEN tasks[i].gets ELSE 0) + GetsFor(url, i + 1)

\* C6 as stated: at most one GET is issued for every URL of the feed list.
C6_OneGetPerUrl == \A u \in Urls : GetsFor(u, 1) <= 1

\* C6 amended: every task issues at most one GET, so a URL is fetched at
\* most once for every line of the feed list that names it.
C6_OneGetPerTask ==
    /\ \A i \in DOMAIN tasks : tasks[i].gets <= 1
    /\ \A u \in Urls : GetsFor(u, 1) <= Count(feed_urls, u)

\* C6 witness: the same URL on two lines, fetched once by each task, one of
\* the fetches failed and not tried again.
C6_Witness ==
    /\ mainpc = "render"
    /\ feed_urls = << "u1", "u1" >>
    /\ tasks[1].gets = 1 /\ tasks[2].gets = 1
    /\ tasks[1].resp.exc

\* C8: full join. Nothing is rendered and no repository call is made while a
\* task is unfinished; from the join on, every task has returned and the
\* combined list holds every post exactly as often as the tasks returned it,
\* and nothing else.
C8_FullJoin ==
    /\ (html_content # NoValue \/ api_log # <<>> \/ mainpc \in AfterJoin) =>
          \A i \in DOMAIN tasks : tasks[i].pc = "done"
    /\ mainpc \in AfterJoin =>
          /\ Len(all_posts) = SumLen(Results, 1)
          /\ \A i \in DOMAIN tasks : \A p \in Range(tasks[i].result) :
                Count(all_posts, p) = SumCount(Results, 1, p)
    /\ mainpc \notin AfterJoin => all_posts = <<>>

\* C8 witness: two tasks returned one post each, of different feeds, and
\* the document of the two posts is published.
C8_Witness ==
    /\ mainpc = "success"
    /\ Len(tasks) = 2
    /\ tasks[1].result # <<>> /\ tasks[2].result # <<>>
    /\ tasks[1].result # tasks[2].result
    /\ all_posts = tasks[1].result \o tasks[2].result

\* C9: run completion for every feed list. The run never ends before the
\* publish step, and from the creation of the pool on the pool has
\* min(8, N) workers.
C9_RunCompletes ==
    /\ mainpc # "crashed"
    /\ mainpc # "start" => max_workers = Min(8, Len(feed_urls))

(***************************************************************************)
(* Properties of the cache (SpecCache).                                    *)
(***************************************************************************)
\* C4: cache TTL. A call of process_feed at time T + d for a URL whose entry
\* was put at T returns the stored posts without fetching when d < 600, and
\* fetches when d >= 600.
C4_CacheTTL ==
    [][ \A i \in DOMAIN tasks :
          (tasks[i].pc = "idle" /\ tasks'[i].pc # "idle"
             /\ tasks'[i].url \in cache_keys(feed_cache)) =>
              LET e == cache_entry(feed_cache, tasks'[i].url)
                  d == clock - (e.expires - ttl)
              IN IF d < ttl
                 THEN /\ tasks'[i].pc = "done"
                      /\ tasks'[i].result = e.posts
                      /\ tasks'[i].gets = 0
                 ELSE /\ tasks'[i].pc = "fetching"
                      /\ tasks'[i].gets = 1 ]_vars

\* C5: empty results are never cached. After every step no cache entry holds
\* an empty list; the cache changes only when a task resumes with a
\* non-empty parse result, which is then the entry of its URL; a task that
\* ends with no post leaves the cache as it was; and a call for a URL the
\* cache has no entry for fetches.
C5_NoEmptyCached ==
    [][ /\ \A k \in 1..Len(feed_cache') : feed_cache'[k].posts # <<>>
        /\ feed_cache' # feed_cache =>
             \E i \in DOMAIN tasks :
                 /\ tasks[i].pc = "parsed" /\ tasks'[i].pc = "done"
                 /\ tasks[i].posts # <<>>
                 /\ tasks[i].url \in cache_keys(feed_cache')
                 /\ cache_entry(feed_cache', tasks[i].url).posts = tasks[i].posts
        /\ \A i \in DOMAIN tasks :
             (tasks[i].pc \in {"fetching", "parsed"} /\ tasks'[i].pc = "done"
                /\ tasks'[i].result = <<>>) => feed_cache' = feed_cache
        /\ \A i \in DOMAIN tasks :
             (tasks[i].pc = "idle" /\ tasks'[i].pc # "idle"
                /\ tasks'[i].url \notin cache_keys(feed_cache))
                 => (tasks'[i].pc = "fetching" /\ tasks'[i].gets = 1) ]_vars

\* C5 witness: a call whose fetch gave a feed with no recent entry has
\* returned no post and left no entry, and the next call for the same URL is
\* fetching again.
C5_Witness ==
    /\ feed_cache = <<>>
    /\ tasks[1].pc = "done" /\ tasks[1].resp = Response(200, FALSE, FeedOld)
    /\ tasks[1].result = <<>>
    /\ tasks[2].pc = "fetching" /\ tasks[2].url = tasks[1].url

====
